---- MODULE Spec2Model ----
(***************************************************************************)
(* A model of the asynchronous execution pipeline of the live code         *)
(* execution engine: admission (ExecutionService.submitExecution), the     *)
(* BullMQ queue "code-execution", the worker (processExecution), the       *)
(* runner (CodeExecutionService.executeCode) and the executions table.     *)
(*                                                                         *)
(* Every await of the source is a step of its own wherever another process *)
(* (the API server, a worker, the queue) can act in between.  A database   *)
(* statement either takes effect or throws; the choice is an input of the  *)
(* step (\E ok \in BOOLEAN).                                                *)
(***************************************************************************)
EXTENDS Integers, Sequences, FiniteSets, TLC

\* ------------------------------------------------------------------ bounds
\* executions that submitExecution may insert after the initial state
MaxNew == 1
\* SIGTERM/SIGINT deliveries to worker processes
MaxKills == 2
\* the clock advances by TickMs at most MaxTicks times
MaxTicks == 2
TickMs == 1000

Clients == {"c1", "c2"}
Workers == {"w1", "w2"}
SessionIds == {"s1"}

\* ------------------------------------------------------- program constants
ABUSE_CHECK_WINDOW == 60
MAX_EXECUTIONS_PER_MINUTE == 10
MAX_FAILED_ATTEMPTS == 5
MIN_TIME_LIMIT == 100
MAX_TIME_LIMIT == 60000
MIN_MEMORY_LIMIT == 32
MAX_MEMORY_LIMIT == 2048
\* defaultJobOptions of the queue
Attempts == 3
BackoffDelay == 2000
\* BullMQ's default for a Worker built without maxStalledCount
MaxStalledCount == 1

\* JavaScript null / SQL NULL in an integer or timestamp column
Null == -1
\* JavaScript null / SQL NULL in a text column
NullText == "<null>"
\* an error.code that is a string, not a number: the code of a Node.js error
\* such as 'ERR_CHILD_PROCESS_STDIO_MAXBUFFER' or 'EAGAIN'
ErrCode == -3
\* a limit that is not a number: undefined when the request body has no such
\* field (const { session_id, time_limit, memory_limit } = req.body), or NaN
NaN == -2

\* rows present in the executions table before the first step: none, or one
\* fewer than the rate limit, all finished and created at time 0
MaxSeed == MAX_EXECUTIONS_PER_MINUTE - 1
\* two concurrent requests need one execution more than a single one
AdmissionCap == MaxNew + 1
ExecIds == 1..(MaxSeed + AdmissionCap)

TerminalStatuses == {"COMPLETED", "FAILED", "TIMEOUT"}

VARIABLES
  clock,       \* Date.now() / NOW(), in milliseconds
  sessions,    \* table sessions: SessionIds -> row
  executions,  \* table executions: ExecIds -> row (status "ABSENT": no row)
  jobs,        \* queue "code-execution": jobId -> job (state "none": no job)
  events,      \* Redis lists execution:<id>:events
  sub,         \* per API request: position in submitExecution and its locals
  wk,          \* per worker: position in processExecution and its locals
  nextId,      \* the next fresh execution id (uuidv4)
  kills        \* signals delivered so far

vars == <<clock, sessions, executions, jobs, events, sub, wk, nextId, kills>>

\* ------------------------------------------------------------- JavaScript
\* a || b on text: the empty string, null and undefined are falsy
OrText(a, b) == IF a = "" \/ a = NullText THEN b ELSE a
\* a || b on an exit code: 0, null and undefined are falsy
OrCode(a, b) == IF a = 0 \/ a = Null THEN b ELSE a

\* a < b and a > b on numbers: every comparison with undefined or NaN is false
JsLess(a, b) == a # NaN /\ b # NaN /\ a < b
JsGreater(a, b) == a # NaN /\ b # NaN /\ a > b

\* ------------------------------------------------------------------ tables
AbsentRow ==
  [session_id |-> "", status |-> "ABSENT", stdout |-> NullText, stderr |-> NullText,
   execution_time_ms |-> Null, exit_code |-> Null, timeout |-> FALSE,
   created_at |-> Null, started_at |-> Null, finished_at |-> Null]

\* a row of an execution that ran to completion before the first step
SeedRow(s) ==
  [session_id |-> s, status |-> "COMPLETED", stdout |-> "out", stderr |-> "",
   execution_time_ms |-> 12, exit_code |-> 0, timeout |-> FALSE,
   created_at |-> 0, started_at |-> 0, finished_at |-> 0]

\* Execution.create: INSERT INTO executions (id, session_id, status)
ExecutionCreate(rows, id, s, now) ==
  [rows EXCEPT ![id] =
     [AbsentRow EXCEPT !.session_id = s, !.status = "QUEUED", !.created_at = now]]

\* Execution.updateStarted: UPDATE ... SET status = 'RUNNING', started_at = NOW()
\* WHERE id = $1 (no row: nothing is updated and nothing is thrown)
updateStarted(rows, id, now) ==
  IF rows[id].status = "ABSENT" THEN rows
  ELSE [rows EXCEPT ![id].status = "RUNNING", ![id].started_at = now]

\* Execution.updateResult: UPDATE ... SET status, stdout, stderr,
\* execution_time_ms, exit_code, timeout, finished_at WHERE id = $8
updateResult(rows, id, data) ==
  IF rows[id].status = "ABSENT" THEN rows
  ELSE [rows EXCEPT ![id].status = data.status,
                    ![id].stdout = data.stdout,
                    ![id].stderr = data.stderr,
                    ![id].execution_time_ms = data.execution_time_ms,
                    ![id].exit_code = data.exit_code,
                    ![id].timeout = data.timeout,
                    ![id].finished_at = data.finished_at]

\* ------------------------------------------------------------- safety gate
\* SafetyService.validateExecutionParams
validateExecutionParams(timeLimit, memoryLimit) ==
  LET timeBad == JsLess(timeLimit, MIN_TIME_LIMIT)
                 \/ JsGreater(timeLimit, MAX_TIME_LIMIT)
      memBad == JsLess(memoryLimit, MIN_MEMORY_LIMIT)
                \/ JsGreater(memoryLimit, MAX_MEMORY_LIMIT)
      errors == (IF timeBad THEN <<"Time limit must be between 100ms and 60000ms">>
                 ELSE <<>>)
                \o (IF memBad THEN <<"Memory limit must be between 32MB and 2048MB">>
                    ELSE <<>>)
  IN [valid |-> Len(errors) = 0, errors |-> errors]

\* the rows the abuse query counts: session_id = $1 AND created_at > to_timestamp($2)
\* with $2 = floor(Date.now() / 1000) - ABUSE_CHECK_WINDOW
RecentExecutions(rows, s, now) ==
  {e \in ExecIds : /\ rows[e].status # "ABSENT"
                   /\ rows[e].session_id = s
                   /\ rows[e].created_at > ((now \div 1000) - ABUSE_CHECK_WINDOW) * 1000}

\* a rule that blocks every request whose abuse query failed
checkExecutionAbuseFailClosed(rows, s, now, queryOk) ==
  LET count == Cardinality(RecentExecutions(rows, s, now))
  IN IF queryOk /\ count < MAX_EXECUTIONS_PER_MINUTE
       THEN [allowed |-> TRUE, reason |-> "", retryAfter |-> Null]
       ELSE [allowed |-> FALSE, reason |-> "Rate limit exceeded",
             retryAfter |-> ABUSE_CHECK_WINDOW]

\* SafetyService.checkExecutionAbuse; queryOk = FALSE: the query throws
checkExecutionAbuse(rows, s, now, queryOk) ==
  LET recent == RecentExecutions(rows, s, now)
      count == Cardinality(recent)
      failedCount == Cardinality({e \in recent : rows[e].status = "FAILED"})
  IN IF ~queryOk THEN [allowed |-> TRUE, reason |-> "", retryAfter |-> Null]
     ELSE IF count >= MAX_EXECUTIONS_PER_MINUTE
       THEN [allowed |-> FALSE, reason |-> "Rate limit exceeded",
             retryAfter |-> ABUSE_CHECK_WINDOW]
     ELSE IF failedCount >= MAX_FAILED_ATTEMPTS
       THEN [allowed |-> FALSE, reason |-> "Too many failed attempts",
             retryAfter |-> ABUSE_CHECK_WINDOW]
     ELSE [allowed |-> TRUE, reason |-> "", retryAfter |-> Null]

\* The source texts a session holds, and the runtimes whose pattern table has
\* a regular expression that matches each of them
Sources == {"console.log(1)", "while (true) {}"}
LoopRuntimes(source) ==
  IF source = "while (true) {}" THEN {"node", "gcc", "g++"} ELSE {}

\* SafetyService.detectInfiniteLoopPatterns: the first pattern of
\* patterns[language.runtime] || [] that matches
detectInfiniteLoopPatterns(sourceCode, runtime) ==
  [detected |-> runtime \in LoopRuntimes(sourceCode)]

\* SafetyService.logExecutionEvent: lpush of the stage on the execution's list
\* (the list is kept as the set of the stages pushed on it)
logExecutionEvent(ev, id, stage) == [ev EXCEPT ![id] = @ \cup {stage}]

\* ------------------------------------------------------------------ runner
\* How the child process of the run command ends (the outcome of execAsync):
\* resolved (exit code 0), or rejected with error.killed / error.code.
RunEnds ==
  { [name |-> "exit0", resolved |-> TRUE, killed |-> FALSE, code |-> 0,
     stdout |-> "out", stderr |-> "", message |-> "", ms |-> 12],
    [name |-> "timeout", resolved |-> FALSE, killed |-> TRUE, code |-> Null,
     stdout |-> "", stderr |-> "", message |-> "Command failed", ms |-> 5000],
    [name |-> "exit7", resolved |-> FALSE, killed |-> FALSE, code |-> 7,
     stdout |-> "x", stderr |-> "", message |-> "Command failed", ms |-> 12] }

\* a classification that reports only what the child wrote on stderr
ClassifyRunStderrOnly(end) ==
  IF end.resolved
    THEN [status |-> "COMPLETED", stdout |-> OrText(end.stdout, ""),
          stderr |-> OrText(end.stderr, ""), execution_time_ms |-> end.ms,
          exit_code |-> 0, timeout |-> FALSE]
  ELSE IF end.killed
    THEN [status |-> "TIMEOUT", stdout |-> OrText(end.stdout, ""),
          stderr |-> OrText(end.stderr, "Execution timeout"),
          execution_time_ms |-> end.ms, exit_code |-> Null, timeout |-> TRUE]
  ELSE [status |-> "FAILED", stdout |-> OrText(end.stdout, ""),
        stderr |-> OrText(end.stderr, ""), execution_time_ms |-> end.ms,
        exit_code |-> OrCode(end.code, 1), timeout |-> FALSE]

\* CodeExecutionService.executeCode, lines 101-139: the run and its classification
ClassifyRun(end) ==
  IF end.resolved
    THEN [status |-> "COMPLETED", stdout |-> OrText(end.stdout, ""),
          stderr |-> OrText(end.stderr, ""), execution_time_ms |-> end.ms,
          exit_code |-> 0, timeout |-> FALSE]
  ELSE IF end.killed
    THEN [status |-> "TIMEOUT", stdout |-> OrText(end.stdout, ""),
          stderr |-> OrText(end.stderr, "Execution timeout"),
          execution_time_ms |-> end.ms, exit_code |-> Null, timeout |-> TRUE]
  ELSE [status |-> "FAILED", stdout |-> OrText(end.stdout, ""),
        stderr |-> OrText(end.stderr, end.message), execution_time_ms |-> end.ms,
        exit_code |-> OrCode(end.code, 1), timeout |-> FALSE]

\* an outer catch that drops the message of the error it caught
RunnerErrorNoMessage(message) ==
  [status |-> "FAILED", stdout |-> "", stderr |-> "", execution_time_ms |-> 0,
   exit_code |-> 1, timeout |-> FALSE]

\* the outcome of the outer catch of executeCode (lines 140-149)
RunnerError(message) ==
  [status |-> "FAILED", stdout |-> "", stderr |-> message, execution_time_ms |-> 0,
   exit_code |-> 1, timeout |-> FALSE]

\* the cases of switch (language.runtime)
SupportedRuntimes == {"python", "node", "gcc", "g++"}
\* the runtimes whose case compiles the source before the run
CompiledRuntimes == {"gcc", "g++"}

\* How the run ends when the child overruns maxBuffer (exec rejects with a
\* RangeError whose code is a string and which has no killed property), and
\* when the child dies of a signal that exec did not send (no exit code)
RunEndsAll ==
  RunEnds \cup
  { [name |-> "maxbuffer", resolved |-> FALSE, killed |-> FALSE, code |-> ErrCode,
     stdout |-> "x", stderr |-> "", message |-> "stdout maxBuffer length exceeded",
     ms |-> 12],
    [name |-> "signal", resolved |-> FALSE, killed |-> FALSE, code |-> Null,
     stdout |-> "", stderr |-> "", message |-> "Command failed", ms |-> 12] }

\* How the compile command (gcc / g++ ... 2>&1) ends: exit code 0 without
\* output, with a warning, with output that holds the word error; a non-zero
\* exit code with the compiler's diagnostics, with the shell's "not found", or
\* without any output
CompileEnds ==
  { [name |-> "clean", resolved |-> TRUE, stdout |-> "", stderr |-> "",
     message |-> ""],
    [name |-> "warning", resolved |-> TRUE, stdout |-> "warning: unused variable",
     stderr |-> "", message |-> ""],
    [name |-> "marker", resolved |-> TRUE,
     stdout |-> "warning: unused variable 'error'", stderr |-> "", message |-> ""],
    [name |-> "exit1", resolved |-> FALSE, stdout |-> "error: expected ';'",
     stderr |-> "", message |-> "Command failed"],
    [name |-> "exit127", resolved |-> FALSE, stdout |-> "sh: 1: gcc: not found",
     stderr |-> "", message |-> "Command failed"],
    [name |-> "silent", resolved |-> FALSE, stdout |-> "", stderr |-> "",
     message |-> "Command failed"] }

\* a test that finds no marker in any output
HasErrorMarkerNever(text) == FALSE

\* compileOutput.toLowerCase().includes('error') ||
\* compileOutput.toLowerCase().includes('not found') on the texts of CompileEnds
HasErrorMarker(text) ==
  text \in {"warning: unused variable 'error'", "error: expected ';'",
            "sh: 1: gcc: not found"}

\* the outcome returned when the compile step fails (lines 36-57, 67-90)
CompileFailure(ce) ==
  LET compileOutput == OrText(OrText(ce.stdout, ce.stderr), "")
      errorMsg == OrText(ce.message, "Compilation failed")
      caught == OrText(OrText(ce.stderr, ce.stdout), errorMsg)
  IN [status |-> "FAILED", stdout |-> "",
      stderr |-> IF ce.resolved
                   THEN OrText(compileOutput, "Compilation failed - may not be installed")
                   ELSE OrText(caught, "Compilation failed - may not be installed"),
      execution_time_ms |-> 0, exit_code |-> 1, timeout |-> FALSE]

\* what an invocation of the runner meets: whether mkdir and writeFile succeed,
\* how the compile command and the run command end, whether rm succeeds
NoTrace == [compile |-> "none", run |-> "none", cleanup |-> "none"]
RunnerEnvs(compileEnds, runEnds, oks) ==
  [mkdirOk : oks, writeOk : oks, compile : compileEnds, run : runEnds, rmOk : oks]
PlainEnvs ==
  RunnerEnvs({ce \in CompileEnds : ce.name = "clean"}, RunEnds, {TRUE})
AllEnvs == RunnerEnvs(CompileEnds, RunEndsAll, BOOLEAN)

\* the body of the outer try of executeCode (lines 14-139) with what it throws
\* turned into an outcome by the outer catch (lines 140-149); compile and run
\* name the commands that were spawned
TryBody(runtime, env) ==
  IF ~env.mkdirOk
    THEN [outcome |-> RunnerError("mkdir failed"), compile |-> "none", run |-> "none"]
  ELSE IF runtime \notin SupportedRuntimes
    THEN [outcome |-> RunnerError("Unsupported language: " \o runtime),
          compile |-> "none", run |-> "none"]
  ELSE IF ~env.writeOk
    THEN [outcome |-> RunnerError("write failed"), compile |-> "none", run |-> "none"]
  ELSE IF runtime \in CompiledRuntimes
          /\ (\/ ~env.compile.resolved
               \/ HasErrorMarker(OrText(OrText(env.compile.stdout,
                                                env.compile.stderr), "")))
    THEN [outcome |-> CompileFailure(env.compile), compile |-> env.compile.name,
          run |-> "none"]
  ELSE [outcome |-> ClassifyRun(env.run),
        compile |-> IF runtime \in CompiledRuntimes THEN env.compile.name ELSE "none",
        run |-> env.run.name]

\* a runner whose failed removal of the scratch directory replaces the outcome
executeCodeCleanupThrows(runtime, env) ==
  LET body == TryBody(runtime, env)
  IN [outcome |-> IF env.rmOk THEN body.outcome ELSE RunnerError("rm failed"),
      trace |-> [compile |-> body.compile, run |-> body.run,
                 cleanup |-> IF env.rmOk THEN "removed" ELSE "thrown"]]

\* CodeExecutionService.executeCode: the outcome it returns and, as its trace,
\* the commands it spawned and how the removal of the scratch directory in
\* its finally block went (removed, or failed and logged by console.warn)
executeCode(runtime, env) ==
  LET body == TryBody(runtime, env)
  IN [outcome |-> body.outcome,
      trace |-> [compile |-> body.compile, run |-> body.run,
                 cleanup |-> IF env.rmOk THEN "removed" ELSE "logged"]]

NoResult ==
  [status |-> "NONE", stdout |-> "", stderr |-> "", execution_time_ms |-> 0,
   exit_code |-> Null, timeout |-> FALSE]

\* ------------------------------------------------------------------- queue
NoJob == [state |-> "none", attemptsMade |-> 0, stalled |-> 0, owner |-> "",
          delay |-> 0, session_id |-> "", time_limit |-> 0, memory_limit |-> 0]

\* a fixed backoff: the same delay before every retry
BackoffMsFixed(attemptsMade) == BackoffDelay

\* exponential backoff of BullMQ: delay * 2^(attemptsMade - 1)
BackoffMs(attemptsMade) == BackoffDelay * (2 ^ (attemptsMade - 1))

\* Queue.add called without the jobId option: no job is stored under the
\* execution id
QueueAddWithoutJobId(q, id, s, t, m) == q

\* a queue that replaces the job stored under an id that is added again
QueueAddOverwrite(q, id, s, t, m) ==
  [q EXCEPT ![id] = [NoJob EXCEPT !.state = "wait", !.session_id = s,
                                  !.time_limit = t, !.memory_limit = m]]

\* Queue.add with jobId: a job id already present is left as it is
QueueAdd(q, id, s, t, m) ==
  IF q[id].state # "none" THEN q
  ELSE [q EXCEPT ![id] = [NoJob EXCEPT !.state = "wait", !.session_id = s,
                                       !.time_limit = t, !.memory_limit = m]]

\* the processor returned: removeOnComplete = true removes the job
MoveToCompleted(q, id) == [q EXCEPT ![id] = NoJob]

\* a retry rule that is off by one: attemptsMade <= attempts
MoveToFailedOffByOne(q, id) ==
  LET made == q[id].attemptsMade + 1
  IN IF made <= Attempts
       THEN [q EXCEPT ![id].state = "delayed", ![id].attemptsMade = made,
                      ![id].owner = "", ![id].delay = BackoffMs(made)]
       ELSE [q EXCEPT ![id].state = "failed", ![id].attemptsMade = made,
                      ![id].owner = "", ![id].delay = 0]

\* the processor threw: retry after the backoff while attempts remain, else
\* keep the job in the failed set (removeOnFail = false)
MoveToFailed(q, id) ==
  LET made == q[id].attemptsMade + 1
  IN IF made < Attempts
       THEN [q EXCEPT ![id].state = "delayed", ![id].attemptsMade = made,
                      ![id].owner = "", ![id].delay = BackoffMs(made)]
       ELSE [q EXCEPT ![id].state = "failed", ![id].attemptsMade = made,
                      ![id].owner = "", ![id].delay = 0]

\* ---------------------------------------------------------------- requests
\* the answer of a controller: res.status(http).json(...); error is the
\* message of the error caught, errors the validation messages joined in it
\* keys: the members of the body that GET /executions/:execution_id answers
NoResp == [http |-> 0, execution_id |-> 0, status |-> "", retryAfter |-> Null,
           error |-> "", errors |-> <<>>, keys |-> {}, stdout |-> NullText,
           stderr |-> NullText, execution_time_ms |-> Null]
\* via: the entry point ("service": ExecutionService.submitExecution called
\* directly, "route": POST /code-sessions/:id/run); warned: the console.warn
\* of the loop scan
IdleSub == [pc |-> "idle", via |-> "", session_id |-> "", time_limit |-> 0,
            memory_limit |-> 0, execution_id |-> 0, closedAtCall |-> FALSE,
            warned |-> FALSE, resp |-> NoResp]
\* source: session.source_code as this attempt read it; trace: what the runner
\* did in this attempt; catchWrite: how the update of the catch branch went
\* ("none": not called)
IdleWorker == [pc |-> "idle", execution_id |-> 0, runtime |-> "", source |-> "",
               result |-> NoResult, error |-> "", trace |-> NoTrace,
               catchWrite |-> "none"]

\* the limits a request carries
TimeLimits == {50, 5000}
MemoryLimits == {256}
\* limits at and around the bounds of the validator, and limits that are not
\* numbers
TimeInputs == {NaN, 50, MIN_TIME_LIMIT, MAX_TIME_LIMIT + 1}
MemoryInputs == {NaN, MIN_MEMORY_LIMIT - 1, MAX_MEMORY_LIMIT, 4096}

\* The state after the servers started: the clock reads one of instants, the
\* session runs one of runtimes, and the executions table holds n copies of a
\* row of seedRows, n out of seeds
InitFull(seeds, seedRows, instants, runtimes) ==
  /\ clock \in instants
  /\ \E r \in runtimes :
       sessions = [s \in SessionIds |->
                     [exists |-> TRUE, status |-> "ACTIVE", runtime |-> r,
                      source_code |-> "console.log(1)"]]
  /\ \E n \in seeds, row \in seedRows :
       /\ executions = [e \in ExecIds |-> IF e <= n THEN row ELSE AbsentRow]
       /\ nextId = n + 1
  /\ jobs = [e \in ExecIds |-> NoJob]
  /\ events = [e \in ExecIds |-> {}]
  /\ sub = [c \in Clients |-> IdleSub]
  /\ wk = [w \in Workers |-> IdleWorker]
  /\ kills = 0

InitWith(seeds) == InitFull(seeds, {SeedRow("s1")}, {0}, {"node"})

\* an empty executions table
Init == InitWith({0})
\* the session is one execution short of its rate limit
InitSeeded == InitWith({MaxSeed})

\* executions inserted since the initial state, and requests that may still insert
InFlight == Cardinality({c \in Clients : sub[c].pc # "idle"})
Inserted == Cardinality({e \in ExecIds : e < nextId /\ events[e] # {}})

\* ---------------------------------------------------------------- admission
\* the catch of a controller: res.status(400).json({ error: error.message })
Reject(req, message) ==
  [req EXCEPT !.pc = "idle", !.resp = [NoResp EXCEPT !.http = 400, !.error = message]]

\* a submit that goes to the abuse check without validating its limits
SubmitCallUnvalidated(c, cap, timeLimits, memoryLimits) ==
  /\ sub[c].pc = "idle"
  /\ Inserted + InFlight < cap
  /\ \E s \in SessionIds, t \in timeLimits, m \in memoryLimits :
       sub' = [sub EXCEPT ![c] =
                 [IdleSub EXCEPT
                    !.pc = "abuse", !.via = "service",
                    !.session_id = s, !.time_limit = t, !.memory_limit = m,
                    !.closedAtCall = (sessions[s].status = "INACTIVE")]]
  /\ UNCHANGED <<clock, sessions, executions, jobs, events, wk, nextId, kills>>

\* ExecutionService.submitExecution is called with limits out of timeLimits and
\* memoryLimits; validateExecutionParams runs before the first await
\* (part_003 8-18)
SubmitCallWith(c, cap, timeLimits, memoryLimits) ==
  /\ sub[c].pc = "idle"
  /\ Inserted + InFlight < cap
  /\ \E s \in SessionIds, t \in timeLimits, m \in memoryLimits :
       LET call == [IdleSub EXCEPT
                      !.via = "service",
                      !.session_id = s, !.time_limit = t, !.memory_limit = m,
                      !.closedAtCall = (sessions[s].status = "INACTIVE")]
           validation == validateExecutionParams(t, m)
       IN IF validation.valid
            THEN sub' = [sub EXCEPT ![c] = [call EXCEPT !.pc = "abuse"]]
            ELSE sub' = [sub EXCEPT ![c] =
                           [call EXCEPT !.resp = [NoResp EXCEPT
                                                    !.http = 400,
                                                    !.error = "Validation failed",
                                                    !.errors = validation.errors]]]
  /\ UNCHANGED <<clock, sessions, executions, jobs, events, wk, nextId, kills>>

SubmitCall(c, cap) == SubmitCallWith(c, cap, TimeLimits, MemoryLimits)

\* an abuse check that records the request it blocks as an execution
SubmitCheckAbuseCountsBlocked(c) ==
  /\ sub[c].pc = "abuse"
  /\ nextId \in ExecIds
  /\ \E queryOk \in BOOLEAN :
       LET abuseCheck ==
             checkExecutionAbuse(executions, sub[c].session_id, clock, queryOk)
       IN IF abuseCheck.allowed
            THEN /\ sub' = [sub EXCEPT ![c].pc = "find"]
                 /\ UNCHANGED <<executions, nextId>>
            ELSE /\ sub' = [sub EXCEPT ![c].pc = "idle",
                              ![c].resp = [NoResp EXCEPT
                                             !.http = 429,
                                             !.error = abuseCheck.reason,
                                             !.retryAfter = abuseCheck.retryAfter]]
                 /\ executions' = ExecutionCreate(executions, nextId,
                                                  sub[c].session_id, clock)
                 /\ nextId' = nextId + 1
  /\ UNCHANGED <<clock, sessions, jobs, events, wk, kills>>

\* await SafetyService.checkExecutionAbuse(sessionId) (part_003 20-27)
SubmitCheckAbuse(c) ==
  /\ sub[c].pc = "abuse"
  /\ \E queryOk \in BOOLEAN :
       LET abuseCheck ==
             checkExecutionAbuse(executions, sub[c].session_id, clock, queryOk)
       IN IF abuseCheck.allowed
            THEN sub' = [sub EXCEPT ![c].pc = "find"]
            ELSE sub' = [sub EXCEPT ![c].pc = "idle",
                           ![c].resp = [NoResp EXCEPT
                                          !.http = 429,
                                          !.error = abuseCheck.reason,
                                          !.retryAfter = abuseCheck.retryAfter]]
  /\ UNCHANGED <<clock, sessions, executions, jobs, events, wk, nextId, kills>>

\* what Session.findById can answer for session s: its row, no row, or a throw
FindAnswers(s) == {"error"} \cup (IF sessions[s].exists THEN {"row"} ELSE {"none"})

\* a request that is refused when the loop scan finds a pattern
AfterFindBlocking(req, answer, detected) ==
  IF answer = "error" THEN Reject(req, "connection error")
  ELSE IF answer = "none" THEN Reject(req, "Session not found")
  ELSE IF detected THEN Reject(req, "Potential infinite loop detected")
  ELSE [req EXCEPT !.pc = "create"]

\* part_003 29-42: the request after Session.findById answered and the loop
\* scan gave its verdict
AfterFind(req, answer, detected) ==
  IF answer = "error" THEN Reject(req, "connection error")
  ELSE IF answer = "none" THEN Reject(req, "Session not found")
  ELSE [req EXCEPT !.pc = "create", !.warned = detected]

\* await Session.findById(sessionId); detectInfiniteLoopPatterns(
\* session.source_code, { runtime: 'node' }) (part_003 29-42)
SubmitFindSession(c) ==
  /\ sub[c].pc = "find"
  /\ LET s == sub[c].session_id
     IN \E answer \in FindAnswers(s) :
          sub' = [sub EXCEPT ![c] =
                    AfterFind(sub[c], answer,
                              detectInfiniteLoopPatterns(sessions[s].source_code,
                                                         "node").detected)]
  /\ UNCHANGED <<clock, sessions, executions, jobs, events, wk, nextId, kills>>

\* a submit that goes on to enqueue the job although its insert failed
SubmitCreateEnqueuesAnyway(c) ==
  /\ sub[c].pc = "create"
  /\ nextId \in ExecIds
  /\ \E insertOk \in BOOLEAN :
       IF insertOk /\ sessions[sub[c].session_id].exists
         THEN /\ executions' = ExecutionCreate(executions, nextId,
                                               sub[c].session_id, clock)
              /\ events' = logExecutionEvent(events, nextId, "QUEUED")
         ELSE UNCHANGED <<executions, events>>
  /\ sub' = [sub EXCEPT ![c].pc = "add", ![c].execution_id = nextId]
  /\ nextId' = nextId + 1
  /\ UNCHANGED <<clock, sessions, jobs, wk, kills>>

\* executionId = uuidv4(); await Execution.create(...); await
\* logExecutionEvent(executionId, 'QUEUED', ...) (part_003 44-57).  The insert
\* throws when the statement fails or the session row is gone (foreign key).
SubmitCreate(c) ==
  /\ sub[c].pc = "create"
  /\ nextId \in ExecIds
  /\ \E insertOk \in BOOLEAN :
       IF insertOk /\ sessions[sub[c].session_id].exists
         THEN /\ executions' = ExecutionCreate(executions, nextId,
                                               sub[c].session_id, clock)
              /\ events' = logExecutionEvent(events, nextId, "QUEUED")
              /\ sub' = [sub EXCEPT ![c].pc = "add", ![c].execution_id = nextId]
              /\ nextId' = nextId + 1
         ELSE /\ sub' = [sub EXCEPT ![c] = Reject(sub[c], "connection error")]
              /\ UNCHANGED <<executions, events, nextId>>
  /\ UNCHANGED <<clock, sessions, jobs, wk, kills>>

\* await codeExecutionQueue.add('execute', {...}, { jobId: executionId })
\* (part_003 59-70); addOk = FALSE: the add throws and nothing handles it
SubmitEnqueue(c) ==
  /\ sub[c].pc = "add"
  /\ \E addOk \in BOOLEAN :
       IF addOk
         THEN /\ jobs' = QueueAdd(jobs, sub[c].execution_id, sub[c].session_id,
                                  sub[c].time_limit, sub[c].memory_limit)
              /\ sub' = [sub EXCEPT ![c].pc = "ret"]
         ELSE /\ sub' = [sub EXCEPT ![c] = Reject(sub[c], "connection error")]
              /\ UNCHANGED jobs
  /\ UNCHANGED <<clock, sessions, executions, events, wk, nextId, kills>>

\* codeExecutionQueue.add is called once more with the same payload and the
\* same jobId before the request returns
SubmitEnqueueAgain(c) ==
  /\ sub[c].pc = "ret"
  /\ jobs' = QueueAdd(jobs, sub[c].execution_id, sub[c].session_id,
                      sub[c].time_limit, sub[c].memory_limit)
  /\ sub' = [sub EXCEPT ![c].pc = "ret2"]
  /\ UNCHANGED <<clock, sessions, executions, events, wk, nextId, kills>>

\* return { execution_id: execution.id, status: execution.status }: the row as
\* the INSERT returned it (part_003 72-75), answered 202 by the controller
SubmitReturn(c) ==
  /\ sub[c].pc \in {"ret", "ret2"}
  /\ sub' = [sub EXCEPT ![c].pc = "idle",
               ![c].resp = [NoResp EXCEPT !.http = 202,
                              !.execution_id = sub[c].execution_id,
                              !.status = "QUEUED"]]
  /\ UNCHANGED <<clock, sessions, executions, jobs, events, wk, nextId, kills>>

\* POST /code-sessions/:session_id/run (part_004 65-89): the first statement
\* calls SessionService.getSessionWithLimits, which SessionService does not
\* define; the TypeError is caught and answered 400.  The limits of the
\* request body are never read.
runCode(c, timeLimits, memoryLimits) ==
  /\ sub[c].pc = "idle"
  /\ \E s \in SessionIds, t \in timeLimits, m \in memoryLimits :
       sub' = [sub EXCEPT ![c] =
                 Reject([IdleSub EXCEPT
                           !.via = "route", !.session_id = s,
                           !.time_limit = t, !.memory_limit = m,
                           !.closedAtCall = (sessions[s].status = "INACTIVE")],
                        "SessionService.getSessionWithLimits is not a function")]
  /\ UNCHANGED <<clock, sessions, executions, jobs, events, wk, nextId, kills>>

\* a lookup that answers the output members whatever the status is
getExecutionAlwaysOutput(rows, id, queryOk) ==
  IF ~queryOk THEN [NoResp EXCEPT !.http = 404, !.error = "connection error"]
  ELSE IF rows[id].status = "ABSENT"
    THEN [NoResp EXCEPT !.http = 404, !.error = "Execution not found"]
  ELSE [NoResp EXCEPT !.http = 200, !.execution_id = id, !.status = rows[id].status,
                      !.keys = {"execution_id", "status", "stdout", "stderr",
                                "execution_time_ms"},
                      !.stdout = OrText(rows[id].stdout, ""),
                      !.stderr = OrText(rows[id].stderr, ""),
                      !.execution_time_ms = rows[id].execution_time_ms]

\* ExecutionService.getExecution (part_003 78-98) as answered by the controller
\* getExecution (executionController.js 4-14): res.json(execution), and 404
\* with the message of whatever was thrown; queryOk = FALSE: findById throws
getExecution(rows, id, queryOk) ==
  IF ~queryOk THEN [NoResp EXCEPT !.http = 404, !.error = "connection error"]
  ELSE IF rows[id].status = "ABSENT"
    THEN [NoResp EXCEPT !.http = 404, !.error = "Execution not found"]
  ELSE IF rows[id].status \in TerminalStatuses
    THEN [NoResp EXCEPT !.http = 200, !.execution_id = id,
                        !.status = rows[id].status,
                        !.keys = {"execution_id", "status", "stdout", "stderr",
                                  "execution_time_ms"},
                        !.stdout = OrText(rows[id].stdout, ""),
                        !.stderr = OrText(rows[id].stderr, ""),
                        !.execution_time_ms = rows[id].execution_time_ms]
  ELSE [NoResp EXCEPT !.http = 200, !.execution_id = id, !.status = rows[id].status,
                      !.keys = {"execution_id", "status"}]

\* the ids a client asks for: those of the executions that can exist and one
\* that never does
LookupIds == 1..(AdmissionCap + 1)

\* GET /executions/:execution_id (executionRoute.js, part_000 33)
GetExecution(c) ==
  /\ sub[c].pc = "idle"
  /\ \E id \in LookupIds, queryOk \in BOOLEAN :
       sub' = [sub EXCEPT ![c] =
                 [IdleSub EXCEPT !.via = "get", !.execution_id = id,
                                 !.resp = getExecution(executions, id, queryOk)]]
  /\ UNCHANGED <<clock, sessions, executions, jobs, events, wk, nextId, kills>>

\* an update that makes the session ACTIVE again whenever its text is saved
SessionUpdateReopens(row, data) ==
  [row EXCEPT
     !.source_code = IF data.source_code # NullText THEN data.source_code ELSE @,
     !.status = IF data.source_code # NullText THEN "ACTIVE"
                ELSE IF data.status # NullText THEN data.status ELSE @]

\* Session.update (part_005 35-61): UPDATE sessions SET the fields of data that
\* are not undefined (NullText: the field is undefined)
SessionUpdate(row, data) ==
  [row EXCEPT
     !.source_code = IF data.source_code # NullText THEN data.source_code ELSE @,
     !.status = IF data.status # NullText THEN data.status ELSE @]

\* SessionService.updateSessionCode (part_002 26-40)
UpdateSessionCode(s) ==
  /\ sessions[s].exists
  /\ \E src \in Sources :
       sessions' = [sessions EXCEPT
                      ![s] = SessionUpdate(@, [source_code |-> src,
                                               status |-> NullText])]
  /\ UNCHANGED <<clock, executions, jobs, events, sub, wk, nextId, kills>>

\* SessionService.closeSession (part_002 61-75): the update is issued whatever
\* the status of the session is
CloseSession(s) ==
  /\ sessions[s].exists
  /\ sessions' = [sessions EXCEPT
                    ![s] = SessionUpdate(@, [source_code |-> NullText,
                                             status |-> "INACTIVE"])]
  /\ UNCHANGED <<clock, executions, jobs, events, sub, wk, nextId, kills>>

\* ------------------------------------------------------------------ worker
\* new Date() in the worker process reads the clock of the worker's host,
\* NOW() in a statement the clock of the database server: the worker's clock
\* runs level with the database's or TickMs behind it
WorkerDates == {clock} \cup (IF clock >= TickMs THEN {clock - TickMs} ELSE {})

\* The Worker takes a waiting job, locks it and calls processExecution(job)
\* (codeExecutionWorker.js 93-96, 19-22)
WorkerReserve(w) ==
  /\ wk[w].pc = "idle"
  /\ \E e \in ExecIds :
       /\ jobs[e].state = "wait"
       /\ jobs' = [jobs EXCEPT ![e].state = "active", ![e].owner = w]
       /\ wk' = [wk EXCEPT ![w] = [IdleWorker EXCEPT !.pc = "start",
                                                     !.execution_id = e]]
  /\ UNCHANGED <<clock, sessions, executions, events, sub, nextId, kills>>

\* await Execution.updateStarted(execution_id); await logExecutionEvent(...,
\* 'RUNNING', ...) (codeExecutionWorker.js 25-28); a throw goes to the catch
WorkerUpdateStarted(w) ==
  /\ wk[w].pc = "start"
  /\ \E updateOk \in BOOLEAN :
       IF updateOk
         THEN /\ executions' = updateStarted(executions, wk[w].execution_id, clock)
              /\ events' = logExecutionEvent(events, wk[w].execution_id, "RUNNING")
              /\ wk' = [wk EXCEPT ![w].pc = "load"]
         ELSE /\ wk' = [wk EXCEPT ![w].pc = "catch", ![w].error = "connection error"]
              /\ UNCHANGED <<executions, events>>
  /\ UNCHANGED <<clock, sessions, jobs, sub, nextId, kills>>

\* a worker that runs the text the session was created with
WorkerLoadSessionFirstText(w) ==
  /\ wk[w].pc = "load"
  /\ LET s == jobs[wk[w].execution_id].session_id
     IN \E queryOk \in BOOLEAN :
          IF ~queryOk
            THEN wk' = [wk EXCEPT ![w].pc = "catch", ![w].error = "connection error"]
          ELSE IF ~sessions[s].exists
            THEN wk' = [wk EXCEPT ![w].pc = "catch",
                                  ![w].error = "Session not found"]
          ELSE wk' = [wk EXCEPT ![w].pc = "run", ![w].runtime = sessions[s].runtime,
                                ![w].source = "console.log(1)"]
  /\ UNCHANGED <<clock, sessions, executions, jobs, events, sub, nextId, kills>>

\* session = await Session.findWithLanguage(session_id); language = await
\* Language.findById(session.language_id) (codeExecutionWorker.js 30-38); the
\* job's payload holds no source text, session.source_code is what is run
WorkerLoadSession(w) ==
  /\ wk[w].pc = "load"
  /\ LET s == jobs[wk[w].execution_id].session_id
     IN \E queryOk \in BOOLEAN :
          IF ~queryOk
            THEN wk' = [wk EXCEPT ![w].pc = "catch", ![w].error = "connection error"]
          ELSE IF ~sessions[s].exists
            THEN wk' = [wk EXCEPT ![w].pc = "catch",
                                  ![w].error = "Session not found"]
          ELSE wk' = [wk EXCEPT ![w].pc = "run", ![w].runtime = sessions[s].runtime,
                                ![w].source = sessions[s].source_code]
  /\ UNCHANGED <<clock, sessions, executions, jobs, events, sub, nextId, kills>>

\* result = await CodeExecutionService.executeCode(language, source_code,
\* time_limit, memory_limit) (codeExecutionWorker.js 40-45)
WorkerExecuteCodeWith(w, envs) ==
  /\ wk[w].pc = "run"
  /\ \E env \in envs :
       LET ran == executeCode(wk[w].runtime, env)
       IN wk' = [wk EXCEPT ![w].pc = "write", ![w].result = ran.outcome,
                           ![w].trace = ran.trace]
  /\ UNCHANGED <<clock, sessions, executions, jobs, events, sub, nextId, kills>>

\* How the run of a source text of Sources ends on a working host: the endless
\* loop is killed at the time limit, the other text exits with code 0
SourceEnvs(source) ==
  {env \in PlainEnvs :
     env.run.name = (IF source = "while (true) {}" THEN "timeout" ELSE "exit0")}

\* the runner is given the text that the attempt read
WorkerExecuteSource(w) == WorkerExecuteCodeWith(w, SourceEnvs(wk[w].source))

\* the runner finds a working file system and a child that ends as in RunEnds
WorkerExecuteCode(w) == WorkerExecuteCodeWith(w, PlainEnvs)

\* a result write whose failure is swallowed: the processor returns all the same
WorkerUpdateResultSwallows(w) ==
  /\ wk[w].pc = "write"
  /\ \E updateOk \in BOOLEAN, date \in WorkerDates :
       IF updateOk /\ wk[w].result.exit_code # ErrCode
         THEN /\ executions' =
                   updateResult(executions, wk[w].execution_id,
                                [status |-> wk[w].result.status,
                                 stdout |-> wk[w].result.stdout,
                                 stderr |-> wk[w].result.stderr,
                                 execution_time_ms |-> wk[w].result.execution_time_ms,
                                 exit_code |-> wk[w].result.exit_code,
                                 timeout |-> wk[w].result.timeout,
                                 finished_at |-> date])
              /\ events' = logExecutionEvent(events, wk[w].execution_id,
                                             wk[w].result.status)
         ELSE UNCHANGED <<executions, events>>
  /\ wk' = [wk EXCEPT ![w].pc = "return"]
  /\ UNCHANGED <<clock, sessions, jobs, sub, nextId, kills>>

\* await Execution.updateResult(execution_id, {...result, finished_at: new
\* Date()}); await logExecutionEvent(execution_id, result.status, ...)
\* (codeExecutionWorker.js 47-61); a throw of the update goes to the catch.
\* The statement throws when the connection fails and when exit_code is a
\* string (column exit_code INTEGER, schema.sql 62).
WorkerUpdateResult(w) ==
  /\ wk[w].pc = "write"
  /\ \E updateOk \in BOOLEAN, date \in WorkerDates :
       IF updateOk /\ wk[w].result.exit_code # ErrCode
         THEN /\ executions' =
                   updateResult(executions, wk[w].execution_id,
                                [status |-> wk[w].result.status,
                                 stdout |-> wk[w].result.stdout,
                                 stderr |-> wk[w].result.stderr,
                                 execution_time_ms |-> wk[w].result.execution_time_ms,
                                 exit_code |-> wk[w].result.exit_code,
                                 timeout |-> wk[w].result.timeout,
                                 finished_at |-> date])
              /\ events' = logExecutionEvent(events, wk[w].execution_id,
                                             wk[w].result.status)
              /\ wk' = [wk EXCEPT ![w].pc = "return"]
         ELSE /\ wk' = [wk EXCEPT ![w].pc = "catch", ![w].error = "connection error"]
              /\ UNCHANGED <<executions, events>>
  /\ UNCHANGED <<clock, sessions, jobs, sub, nextId, kills>>

\* a processor that throws when the runner's outcome is not COMPLETED
WorkerReturnThrowsOnFailure(w) ==
  /\ wk[w].pc = "return"
  /\ jobs' = IF wk[w].result.status = "COMPLETED"
               THEN MoveToCompleted(jobs, wk[w].execution_id)
               ELSE MoveToFailed(jobs, wk[w].execution_id)
  /\ wk' = [wk EXCEPT ![w] = IdleWorker]
  /\ UNCHANGED <<clock, sessions, executions, events, sub, nextId, kills>>

\* return result (codeExecutionWorker.js 63-64): the processor resolved, the
\* Worker moves the job to completed
WorkerReturn(w) ==
  /\ wk[w].pc = "return"
  /\ jobs' = MoveToCompleted(jobs, wk[w].execution_id)
  /\ wk' = [wk EXCEPT ![w] = IdleWorker]
  /\ UNCHANGED <<clock, sessions, executions, events, sub, nextId, kills>>

\* a catch branch that leaves the row alone on the job's last attempt
WorkerCatchSkipsLastWrite(w) ==
  /\ wk[w].pc = "catch"
  /\ events' = logExecutionEvent(events, wk[w].execution_id, "FAILED")
  /\ \E updateOk \in BOOLEAN, date \in WorkerDates :
       IF jobs[wk[w].execution_id].attemptsMade + 1 >= Attempts
         THEN /\ UNCHANGED executions
              /\ wk' = [wk EXCEPT ![w].pc = "throw"]
       ELSE IF updateOk
         THEN /\ executions' =
                   updateResult(executions, wk[w].execution_id,
                                [status |-> "FAILED", stdout |-> "",
                                 stderr |-> wk[w].error, execution_time_ms |-> 0,
                                 exit_code |-> 1, timeout |-> FALSE,
                                 finished_at |-> date])
              /\ wk' = [wk EXCEPT ![w].pc = "throw", ![w].catchWrite = "ok"]
         ELSE /\ UNCHANGED executions
              /\ wk' = [wk EXCEPT ![w].pc = "throw", ![w].catchWrite = "failed"]
  /\ UNCHANGED <<clock, sessions, jobs, sub, nextId, kills>>

\* catch (error): await logExecutionEvent(execution_id, 'FAILED', ...); await
\* Execution.updateResult(execution_id, { status: 'FAILED', ... stderr:
\* error.message ... }) (codeExecutionWorker.js 65-81); whether or not that
\* update throws, the handler goes on to throw
WorkerCatch(w) ==
  /\ wk[w].pc = "catch"
  /\ events' = logExecutionEvent(events, wk[w].execution_id, "FAILED")
  /\ \E updateOk \in BOOLEAN, date \in WorkerDates :
       IF updateOk
         THEN /\ executions' =
                   updateResult(executions, wk[w].execution_id,
                                [status |-> "FAILED", stdout |-> "",
                                 stderr |-> wk[w].error, execution_time_ms |-> 0,
                                 exit_code |-> 1, timeout |-> FALSE,
                                 finished_at |-> date])
              /\ wk' = [wk EXCEPT ![w].pc = "throw", ![w].catchWrite = "ok"]
         ELSE /\ UNCHANGED executions
              /\ wk' = [wk EXCEPT ![w].pc = "throw", ![w].catchWrite = "failed"]
  /\ UNCHANGED <<clock, sessions, jobs, sub, nextId, kills>>

\* throw error (codeExecutionWorker.js 83): the processor rejected, the Worker
\* moves the job to delayed (retry) or to failed
WorkerThrow(w) ==
  /\ wk[w].pc = "throw"
  /\ jobs' = MoveToFailed(jobs, wk[w].execution_id)
  /\ wk' = [wk EXCEPT ![w] = IdleWorker]
  /\ UNCHANGED <<clock, sessions, executions, events, sub, nextId, kills>>

\* the backoff of a delayed job has elapsed: it waits again
PromoteDelayed(e) ==
  /\ jobs[e].state = "delayed"
  /\ jobs' = [jobs EXCEPT ![e].state = "wait", ![e].delay = 0]
  /\ UNCHANGED <<clock, sessions, executions, events, sub, wk, nextId, kills>>

\* process.on('SIGTERM' | 'SIGINT', () => process.exit(0))
\* (codeExecutionWorker.js 113-121): the process ends at once, whatever it was
\* doing; a new worker process takes its place.  The lock of its job is no
\* longer renewed.
KillWorker(w) ==
  /\ kills < MaxKills
  /\ kills' = kills + 1
  /\ wk' = [wk EXCEPT ![w] = IdleWorker]
  /\ jobs' = [e \in ExecIds |->
                IF jobs[e].state = "active" /\ jobs[e].owner = w
                  THEN [jobs[e] EXCEPT !.owner = ""]
                  ELSE jobs[e]]
  /\ UNCHANGED <<clock, sessions, executions, events, sub, nextId>>

\* the stalled-jobs check of the queue: an active job whose lock expired goes
\* back to wait, or to failed once it stalled more than maxStalledCount times
StalledCheck(e) ==
  /\ jobs[e].state = "active"
  /\ jobs[e].owner = ""
  /\ IF jobs[e].stalled < MaxStalledCount
       THEN jobs' = [jobs EXCEPT ![e].state = "wait", ![e].stalled = @ + 1]
       ELSE jobs' = [jobs EXCEPT ![e].state = "failed"]
  /\ UNCHANGED <<clock, sessions, executions, events, sub, wk, nextId, kills>>

\* time passes on every clock
Tick ==
  /\ clock < MaxTicks * TickMs
  /\ clock' = clock + TickMs
  /\ UNCHANGED <<sessions, executions, jobs, events, sub, wk, nextId, kills>>

\* the steps of one API request and of one worker process
SubmitRest(c) ==
  \/ SubmitCheckAbuse(c)
  \/ SubmitFindSession(c)
  \/ SubmitCreate(c)
  \/ SubmitEnqueue(c)
  \/ SubmitReturn(c)

SubmitStep(c, cap) ==
  \/ SubmitCall(c, cap)
  \/ SubmitRest(c)

WorkerRest(w) ==
  \/ WorkerReserve(w)
  \/ WorkerUpdateStarted(w)
  \/ WorkerLoadSession(w)
  \/ WorkerUpdateResult(w)
  \/ WorkerReturn(w)
  \/ WorkerCatch(w)
  \/ WorkerThrow(w)

WorkerRun(w) ==
  \/ WorkerExecuteCode(w)
  \/ WorkerRest(w)

WorkerStep(w) ==
  \/ WorkerRun(w)
  \/ KillWorker(w)

QueueStep ==
  \/ \E e \in ExecIds : PromoteDelayed(e)
  \/ \E e \in ExecIds : StalledCheck(e)

\* one API request at a time, one worker process
Next ==
  \/ SubmitStep("c1", MaxNew)
  \/ WorkerStep("w1")
  \/ QueueStep
  \/ \E s \in SessionIds : CloseSession(s)

Spec == Init /\ [][Next]_vars

\* two API requests at a time on a session one execution short of its limit
\* (no signal is delivered to the worker)
NextAdm ==
  \/ \E c \in Clients : SubmitStep(c, AdmissionCap)
  \/ WorkerRun("w1")
  \/ \E e \in ExecIds : PromoteDelayed(e)

SpecAdm == InitSeeded /\ [][NextAdm]_vars

\* a session row is deleted from the table: ON DELETE CASCADE removes its
\* executions (schema.sql 69-72)
DeleteSession(s) ==
  /\ sessions[s].exists
  /\ sessions' = [sessions EXCEPT ![s].exists = FALSE]
  /\ executions' = [e \in ExecIds |->
                      IF executions[e].session_id = s THEN AbsentRow
                      ELSE executions[e]]
  /\ UNCHANGED <<clock, jobs, events, sub, wk, nextId, kills>>

NextDel ==
  \/ SubmitStep("c1", MaxNew)
  \/ WorkerStep("w1")
  \/ QueueStep
  \/ \E s \in SessionIds : DeleteSession(s)

SpecDel == Init /\ [][NextDel]_vars

\* the clocks advance while one request and one worker run
NextTime ==
  \/ SubmitStep("c1", MaxNew)
  \/ WorkerRun("w1")
  \/ \E e \in ExecIds : PromoteDelayed(e)
  \/ Tick

SpecTime == Init /\ [][NextTime]_vars

\* the session is new, or it has used up its rate limit
InitGate == InitWith({0, MAX_EXECUTIONS_PER_MINUTE})

\* every entry point of admission, with limits around the validator's bounds,
\* on a session that is edited, closed or deleted meanwhile (no worker runs)
NextGate ==
  \/ SubmitCallWith("c1", MaxNew, TimeInputs, MemoryInputs)
  \/ SubmitRest("c1")
  \/ runCode("c1", TimeInputs, MemoryInputs)
  \/ \E s \in SessionIds : UpdateSessionCode(s)
  \/ \E s \in SessionIds : CloseSession(s)
  \/ \E s \in SessionIds : DeleteSession(s)

SpecGate == InitGate /\ [][NextGate]_vars

\* a request that enqueues its job a second time while a worker runs
NextDup ==
  \/ SubmitStep("c1", MaxNew)
  \/ SubmitEnqueueAgain("c1")
  \/ WorkerRun("w1")
  \/ \E e \in ExecIds : PromoteDelayed(e)

SpecDup == Init /\ [][NextDup]_vars

\* a client polls executions while a request and a worker run
NextGet ==
  \/ SubmitStep("c1", MaxNew)
  \/ WorkerRun("w1")
  \/ \E e \in ExecIds : PromoteDelayed(e)
  \/ GetExecution("c2")

SpecGet == Init /\ [][NextGet]_vars

\* Instants around the end of the abuse window of rows created half a second
\* after time 0: 59.4 s, 59.9 s, 60.4 s and 60.5 s after their creation
WindowInstants == {59900, 60400, 60900, 61000}
\* executions of the session that completed, or failed, created at 500 ms
WindowSeedRows ==
  { [SeedRow("s1") EXCEPT !.created_at = 500, !.started_at = 500,
                          !.finished_at = 500],
    [SeedRow("s1") EXCEPT !.status = "FAILED", !.stdout = "",
                          !.stderr = "Command failed", !.exit_code = 1,
                          !.created_at = 500, !.started_at = 500,
                          !.finished_at = 500] }
\* one short of the failure limit, the failure limit, the rate limit
WindowSeeds ==
  {MAX_FAILED_ATTEMPTS - 1, MAX_FAILED_ATTEMPTS, MAX_EXECUTIONS_PER_MINUTE}

InitWindow == InitFull(WindowSeeds, WindowSeedRows, WindowInstants, {"node"})

\* a request is submitted about a minute after the session's last executions
NextWindow == SubmitStep("c1", MaxNew)

SpecWindow == InitWindow /\ [][NextWindow]_vars

\* the runtimes of the session: interpreted, compiled, and one that the
\* languages table holds and the runner has no case for
Runtimes == {"node", "gcc", "g++", "ruby"}
InitRunner == InitFull({0}, {SeedRow("s1")}, {0}, Runtimes)

\* the runner meets every failure of its file system and of its children
NextRunner ==
  \/ SubmitStep("c1", MaxNew)
  \/ WorkerExecuteCodeWith("w1", AllEnvs)
  \/ WorkerRest("w1")
  \/ \E e \in ExecIds : PromoteDelayed(e)

SpecRunner == InitRunner /\ [][NextRunner]_vars

\* the session's text is saved, and the session closed, while a request and
\* a worker run
NextSave ==
  \/ SubmitStep("c1", MaxNew)
  \/ WorkerExecuteSource("w1")
  \/ WorkerRest("w1")
  \/ \E e \in ExecIds : PromoteDelayed(e)
  \/ \E s \in SessionIds : UpdateSessionCode(s)
  \/ \E s \in SessionIds : CloseSession(s)

SpecSave == Init /\ [][NextSave]_vars

\* ================================================================== claims
\* the request that inserted row e has not reached its enqueue yet
EnqueuePending(e) ==
  \E c \in Clients : sub[c].pc = "add" /\ sub[c].execution_id = e

StatusSteps ==
  { <<"ABSENT", "QUEUED">>, <<"QUEUED", "RUNNING">>, <<"QUEUED", "FAILED">>,
    <<"RUNNING", "COMPLETED">>, <<"RUNNING", "FAILED">>, <<"RUNNING", "TIMEOUT">> }

\* C1: the statuses a row takes are a prefix of QUEUED, RUNNING, terminal
\* (QUEUED -> FAILED allowed): RUNNING is entered only from QUEUED and a
\* terminal row never goes back to RUNNING.
C1_StatusSequence ==
  [][\A e \in ExecIds :
       executions'[e].status # executions[e].status
         => <<executions[e].status, executions'[e].status>> \in StatusSteps]_vars

\* C2: once a row is COMPLETED, FAILED or TIMEOUT no step changes its status,
\* stdout, stderr, execution_time_ms, exit_code, timeout or finished_at.
C2_TerminalImmutable ==
  [][\A e \in ExecIds :
       executions[e].status \in TerminalStatuses
         => /\ executions'[e].status = executions[e].status
            /\ executions'[e].stdout = executions[e].stdout
            /\ executions'[e].stderr = executions[e].stderr
            /\ executions'[e].execution_time_ms = executions[e].execution_time_ms
            /\ executions'[e].exit_code = executions[e].exit_code
            /\ executions'[e].timeout = executions[e].timeout
            /\ executions'[e].finished_at = executions[e].finished_at]_vars

\* C3: every admitted execution eventually reaches a terminal status.  A job
\* in the failed set is never processed again and nothing else writes its
\* row, so the claim requires the row of a failed job to be terminal already.
C3_NoExecutionStuck ==
  \A e \in ExecIds :
    jobs[e].state = "failed" => executions[e].status \in TerminalStatuses

\* C4 (as stated): at the moment submit returns successfully the row with the
\* returned id is QUEUED and the queue holds the job with that id.
C4_QueuedAtReturn ==
  \A c \in Clients :
    sub[c].pc = "ret"
      => /\ executions[sub[c].execution_id].status = "QUEUED"
         /\ jobs[sub[c].execution_id].state # "none"

\* C4 (amended): at the moment the enqueue of a submit takes effect the row
\* with the new id is QUEUED and the job with that id waits in the queue with
\* the request's payload; the response then carries that id and QUEUED.
C4_QueuedAtEnqueue ==
  [][\A c \in Clients :
       /\ (sub[c].pc = "add" /\ sub'[c].pc = "ret")
            => /\ executions'[sub[c].execution_id].status = "QUEUED"
               /\ jobs'[sub[c].execution_id].state = "wait"
               /\ jobs'[sub[c].execution_id].session_id = sub[c].session_id
               /\ jobs'[sub[c].execution_id].time_limit = sub[c].time_limit
               /\ jobs'[sub[c].execution_id].memory_limit = sub[c].memory_limit
               /\ executions'[sub[c].execution_id].session_id = sub[c].session_id
       /\ (sub[c].pc = "ret" /\ sub'[c].pc = "idle")
            => /\ sub'[c].resp.http = 202
               /\ sub'[c].resp.execution_id = sub[c].execution_id
               /\ sub'[c].resp.status = "QUEUED"]_vars

\* a submit has enqueued its job and is about to return
C4_Witness ==
  \E c \in Clients :
    /\ sub[c].pc = "ret"
    /\ executions[sub[c].execution_id].status = "QUEUED"
    /\ jobs[sub[c].execution_id].state = "wait"

\* C5: a failed enqueue leaves the row FAILED, so no row is QUEUED without a
\* job outside the submit that is about to enqueue it.
C5_NoQueuedRowWithoutJob ==
  \A e \in ExecIds :
    executions[e].status = "QUEUED" => jobs[e].state # "none" \/ EnqueuePending(e)

\* C6: a submit for a session that is INACTIVE when it is issued is rejected
\* and creates no execution row and no job.
C6_ClosedSessionRefuses ==
  \A c \in Clients :
    sub[c].closedAtCall
      => /\ sub[c].pc \notin {"create", "add", "ret"}
         /\ sub[c].execution_id = 0
         /\ sub[c].resp.http # 202

\* C7: the 11th admission of a session within a 60-second window never
\* succeeds: at most 10 of its rows have created_at inside the window.
C7_EleventhAdmissionRejected ==
  \A s \in SessionIds :
    Cardinality(RecentExecutions(executions, s, clock)) <= 10

C9_CodeFailureAcked ==
  [][/\ \A w \in Workers :
          (/\ wk[w].pc = "return"
           /\ wk[w].result.status \in {"FAILED", "TIMEOUT"}
           /\ wk'[w] # wk[w]
           /\ kills' = kills)
            => /\ jobs'[wk[w].execution_id].state = "none"
               /\ executions'[wk[w].execution_id].status = wk[w].result.status
     /\ \A e \in ExecIds :
          (jobs[e].state = "none" /\ executions[e].status # "ABSENT"
           /\ ~EnqueuePending(e))
            => jobs'[e].state = "none"]_vars

\* a TIMEOUT row whose job was acked and removed
C9_Witness ==
  \E e \in ExecIds :
    /\ executions[e].status \in {"FAILED", "TIMEOUT"}
    /\ executions[e].exit_code # 1
    /\ jobs[e].state = "none"
    /\ ~EnqueuePending(e)
    /\ \A w \in Workers : wk[w].pc = "idle"

\* C10: a worker that finds the job's session missing writes FAILED and acks:
\* it does not throw, so the job is not retried.
C10_MissingSessionAcked ==
  \A w \in Workers : wk[w].error = "Session not found" => wk[w].pc # "throw"

\* C11: for every execution row, timeout is true exactly when the status is
\* TIMEOUT, and a TIMEOUT row has no exit code; also after the job was retried
\* or delivered again.
C11_TimeoutFlag ==
  \A e \in ExecIds :
    executions[e].status # "ABSENT"
      => /\ executions[e].timeout <=> executions[e].status = "TIMEOUT"
         /\ executions[e].status = "TIMEOUT" => executions[e].exit_code = Null

\* C12: every row with a terminal status has finished_at set, and started_at
\* <= finished_at when started_at is set.
C12_TimestampsOrdered ==
  \A e \in ExecIds :
    executions[e].status \in TerminalStatuses
      => /\ executions[e].finished_at # Null
         /\ executions[e].started_at # Null
              => executions[e].started_at <= executions[e].finished_at

InBounds(t, m) == 100 <= t /\ t <= 60000 /\ 32 <= m /\ m <= 2048

\* C14: validateParams(t, m) reports valid if and only if 100 <= t <= 60000
\* and 32 <= m <= 2048, with one error entry per limit out of range; so a
\* submit goes past validation only with limits inside the bounds.
C14_ValidatorBounds ==
  \A c \in Clients :
    sub[c].via = "service"
      => LET t == sub[c].time_limit
             m == sub[c].memory_limit
             validation == validateExecutionParams(t, m)
         IN /\ validation.valid <=> InBounds(t, m)
            /\ Len(validation.errors)
                 = (IF 100 <= t /\ t <= 60000 THEN 0 ELSE 1)
                   + (IF 32 <= m /\ m <= 2048 THEN 0 ELSE 1)
            /\ sub[c].resp.error = "Validation failed"
                 => sub[c].resp.errors = validation.errors
            /\ sub[c].resp.error # "Validation failed" => InBounds(t, m)

\* C15: when the query of the abuse check fails, the check does not throw and
\* allows the request; a submit leaves the abuse check either admitted or
\* answered 429, and 429 only when the query answered and found the session
\* over a limit.
C15_AbuseCheckFailsOpen ==
  [][\A c \in Clients :
       (sub[c].pc = "abuse" /\ sub'[c].pc # "abuse")
         => /\ checkExecutionAbuse(executions, sub[c].session_id, clock, FALSE)
                 = [allowed |-> TRUE, reason |-> "", retryAfter |-> Null]
            /\ sub'[c].pc = "find"
                 => sub'[c] = [sub[c] EXCEPT !.pc = "find"]
            /\ sub'[c].pc # "find"
                 => /\ sub'[c].pc = "idle"
                    /\ sub'[c].resp.http = 429
                    /\ ~checkExecutionAbuse(executions, sub[c].session_id, clock,
                                            TRUE).allowed]_vars

\* a submit went past the abuse check on a session that is over its rate
\* limit (no other request runs: the query of the check failed)
C15_Witness ==
  \E c \in Clients :
    /\ sub[c].pc = "find"
    /\ ~checkExecutionAbuse(executions, sub[c].session_id, clock, TRUE).allowed

\* C16: the loop scan is advisory: whatever it finds, the request goes on as
\* it does for a source without a pattern (same rejection or same progress
\* to the insert), the verdict being kept only in the warning.
C16_LoopScanAdvisory ==
  [][\A c \in Clients :
       /\ \A answer \in {"row", "none", "error"} :
            sub[c].pc = "find"
              => [AfterFind(sub[c], answer, TRUE) EXCEPT !.warned = FALSE]
                   = AfterFind(sub[c], answer, FALSE)
       /\ (sub[c].pc = "find" /\ sub'[c].pc # "find")
            => [sub'[c] EXCEPT !.warned = FALSE]
                 \in {AfterFind(sub[c], answer, FALSE) :
                        answer \in FindAnswers(sub[c].session_id)}
       /\ (sub[c].pc \in {"create", "add", "ret"} /\ sub'[c].pc # "idle")
            => sub'[c].warned = sub[c].warned]_vars

\* a submit whose source matched a loop pattern was answered 202
C16_Witness ==
  \E c \in Clients :
    /\ sub[c].warned
    /\ sub[c].resp.http = 202
    /\ executions[sub[c].resp.execution_id].status = "QUEUED"
    /\ jobs[sub[c].resp.execution_id].state = "wait"

\* C17: submit validates its limits first, then checks abuse, then fetches the
\* session: limits the validator refuses are answered 400 in the first step,
\* whatever the session's rows or existence; 429 is answered only by the abuse
\* check, which comes before the session lookup.
C17_CheckOrder ==
  [][\A c \in Clients :
       /\ (sub[c].pc = "idle" /\ sub'[c] # sub[c] /\ sub'[c].via = "service")
            => IF validateExecutionParams(sub'[c].time_limit,
                                          sub'[c].memory_limit).valid
                 THEN sub'[c].pc = "abuse"
                 ELSE /\ sub'[c].pc = "idle"
                      /\ sub'[c].resp.http = 400
                      /\ sub'[c].resp.error = "Validation failed"
       /\ (sub'[c].resp.http = 429 /\ sub'[c] # sub[c]) => sub[c].pc = "abuse"
       /\ (sub[c].pc = "abuse" /\ sub'[c].pc # "abuse")
            => \/ sub'[c].pc = "find"
               \/ sub'[c].pc = "idle" /\ sub'[c].resp.http = 429
       /\ (sub'[c].pc = "find" /\ sub[c].pc # "find") => sub[c].pc = "abuse"
       /\ (sub'[c].resp.error = "Session not found" /\ sub'[c] # sub[c])
            => sub[c].pc = "find"]_vars

\* limits out of range on a session that is over its rate limit were answered
\* with the validation error
C17_Witness ==
  \E c \in Clients :
    /\ sub[c].via = "service"
    /\ sub[c].resp.error = "Validation failed"
    /\ sessions[sub[c].session_id].exists
    /\ Cardinality(RecentExecutions(executions, sub[c].session_id, clock))
         >= MAX_EXECUTIONS_PER_MINUTE

\* C18: POST /code-sessions/:id/run for an existing ACTIVE session under the
\* rate limit answers 202 with a fresh execution id and status QUEUED, the
\* row being inserted and its job enqueued.
C18_RunAccepted ==
  [][\A c \in Clients :
       (/\ sub[c].pc = "idle" /\ sub'[c] # sub[c] /\ sub'[c].via = "route"
        /\ sessions[sub'[c].session_id].exists
        /\ sessions[sub'[c].session_id].status = "ACTIVE"
        /\ checkExecutionAbuse(executions, sub'[c].session_id, clock, TRUE).allowed)
         => /\ sub'[c].resp.http = 202
            /\ sub'[c].resp.status = "QUEUED"
            /\ sub'[c].resp.execution_id \in ExecIds
            /\ executions[sub'[c].resp.execution_id].status = "ABSENT"
            /\ executions'[sub'[c].resp.execution_id].status = "QUEUED"
            /\ jobs'[sub'[c].resp.execution_id].state = "wait"]_vars

\* C19: POST /code-sessions/:id/run with a time_limit or memory_limit out of
\* bounds in its body is answered 400 with the validation error and creates
\* no row and no job.
C19_RunRejectsBadLimits ==
  [][\A c \in Clients :
       (/\ sub[c].pc = "idle" /\ sub'[c] # sub[c] /\ sub'[c].via = "route"
        /\ ~InBounds(sub'[c].time_limit, sub'[c].memory_limit))
         => /\ sub'[c].resp.http = 400
            /\ sub'[c].resp.error = "Validation failed"
            /\ executions' = executions
            /\ jobs' = jobs]_vars

C22_GetExecution ==
  [][\A c \in Clients :
       (sub'[c] # sub[c] /\ sub'[c].via = "get")
         => LET id == sub'[c].execution_id
                row == executions[id]
                r == sub'[c].resp
            IN /\ r.http \in {200, 404}
               /\ row.status = "ABSENT" => r.http = 404
               /\ (row.status # "ABSENT" /\ r.http = 404)
                    => r.error = "connection error"
               /\ r.http = 200
                    => /\ {"execution_id", "status"} \subseteq r.keys
                       /\ r.execution_id = id
                       /\ r.status = row.status
                       /\ \A k \in {"stdout", "stderr", "execution_time_ms"} :
                            k \in r.keys <=> row.status \in TerminalStatuses
                       /\ row.status \in TerminalStatuses
                            => /\ r.stdout = row.stdout
                               /\ r.stderr = row.stderr
                               /\ r.execution_time_ms = row.execution_time_ms]_vars

\* a client was answered the output of an execution whose run failed
C22_Witness ==
  \E c \in Clients :
    /\ sub[c].via = "get"
    /\ sub[c].resp.http = 200
    /\ sub[c].resp.status = "FAILED"
    /\ sub[c].resp.keys = {"execution_id", "status", "stdout", "stderr",
                            "execution_time_ms"}
    /\ sub[c].resp.stderr = "Command failed"

\* the session's executions created within the last ABUSE_CHECK_WINDOW seconds
CreatedInWindow(s) ==
  {e \in ExecIds : /\ executions[e].status # "ABSENT"
                   /\ executions[e].session_id = s
                   /\ executions[e].created_at > clock - ABUSE_CHECK_WINDOW * 1000}

\* C23: a submit is blocked by the abuse check (429, retryAfter = 60) only if,
\* among the session's executions created within the last 60 seconds, there
\* are MAX_EXECUTIONS_PER_MINUTE or more, or MAX_FAILED_ATTEMPTS or more with
\* status FAILED.
C23_BlockedOnlyInWindow ==
  [][\A c \in Clients :
       (sub[c].pc = "abuse" /\ sub'[c].resp.http = 429)
         => LET recent == CreatedInWindow(sub[c].session_id)
                failed == {e \in recent : executions[e].status = "FAILED"}
            IN /\ sub'[c].resp.retryAfter = ABUSE_CHECK_WINDOW
               /\ \/ Cardinality(recent) >= MAX_EXECUTIONS_PER_MINUTE
                  \/ Cardinality(failed) >= MAX_FAILED_ATTEMPTS]_vars

\* C24: a signal does not end a run that is in flight: a worker that has
\* reserved a job and has not yet written its result keeps processing it when
\* SIGTERM or SIGINT is delivered, so the result is still written.
C24_SignalKeepsRunInFlight ==
  [][kills' = kills + 1
       => \A w \in Workers :
            wk[w].pc \in {"start", "load", "run", "write"}
              => /\ wk'[w] = wk[w]
                 /\ jobs'[wk[w].execution_id] = jobs[wk[w].execution_id]]_vars

\* C25: the started_at of a row changes only in a step that takes the row
\* from QUEUED to RUNNING, and its finished_at only in a step that takes it
\* from a status that is not terminal to a terminal one; so neither is written
\* a second time.
C25_TimestampsWrittenOnce ==
  [][\A e \in ExecIds :
       /\ executions'[e].started_at # executions[e].started_at
            => /\ executions[e].status = "QUEUED"
               /\ executions'[e].status = "RUNNING"
       /\ executions'[e].finished_at # executions[e].finished_at
            => /\ executions[e].status \notin TerminalStatuses
               /\ executions'[e].status \in TerminalStatuses]_vars

\* C26: a worker that holds a job whose execution row does not exist never
\* goes on to the session lookup or to a run: unless its statement throws or it
\* is signalled, its next step acks the job (the job leaves the queue and the
\* worker is idle again).
C26_MissingRowAcked ==
  [][\A w \in Workers :
       (/\ wk[w].pc = "start"
        /\ executions[wk[w].execution_id].status = "ABSENT"
        /\ wk'[w] # wk[w]
        /\ kills' = kills)
         => \/ wk'[w].pc = "catch"
            \/ /\ wk'[w].pc = "idle"
               /\ jobs'[wk[w].execution_id].state = "none"]_vars

\* C27: in every attempt that fails, the last one included, the catch branch
\* issues the FAILED update before it throws; when that update succeeded the
\* row is FAILED at the throw, and while a job sits in failed retention after
\* Attempts attempts neither the job nor its row changes: the row written by
\* a last attempt whose update succeeded stays FAILED.
C27_LastAttemptWritesFailed ==
  [][\A w \in Workers :
       LET e == wk[w].execution_id
       IN /\ (wk[w].pc = "catch" /\ wk'[w].pc = "throw")
               => /\ wk'[w].catchWrite \in {"ok", "failed"}
                  /\ wk'[w].catchWrite = "ok" => executions'[e].status = "FAILED"
          /\ (wk[w].pc = "throw" /\ wk[w].catchWrite = "ok"
                                  /\ jobs'[e].state = "failed")
               => /\ jobs'[e].attemptsMade = Attempts
                  /\ executions'[e].status = "FAILED"
          /\ \A x \in ExecIds :
               (jobs[x].state = "failed" /\ jobs[x].attemptsMade = Attempts)
                 => jobs'[x] = jobs[x] /\ executions'[x] = executions[x]]_vars

\* the third attempt of a job failed and its catch branch has written FAILED
C27_Witness ==
  \E w \in Workers :
    /\ wk[w].pc = "throw"
    /\ wk[w].catchWrite = "ok"
    /\ jobs[wk[w].execution_id].attemptsMade = Attempts - 1
    /\ executions[wk[w].execution_id].status = "FAILED"

\* C28: after a run, the outcome is COMPLETED with exit_code 0 and timeout
\* false when the child exited with code 0; TIMEOUT with exit_code null,
\* timeout true and a stderr that is not empty when it was killed at the time
\* limit; and in every other case FAILED with timeout false and, as exit_code,
\* the child's integer exit code, or 1 when it has none.
C28_Classification ==
  \A w \in Workers :
    (wk[w].pc = "write" /\ wk[w].trace.run # "none")
      => LET r == wk[w].result
             end == wk[w].trace.run
         IN IF end = "exit0"
              THEN r.status = "COMPLETED" /\ r.exit_code = 0 /\ ~r.timeout
            ELSE IF end = "timeout"
              THEN /\ r.status = "TIMEOUT" /\ r.exit_code = Null /\ r.timeout
                   /\ r.stderr # ""
            ELSE /\ r.status = "FAILED" /\ ~r.timeout
                 /\ r.exit_code = (IF end = "exit7" THEN 7 ELSE 1)

\* C29: when the compile command of a compiled runtime exits non-zero, or its
\* output holds an error marker, no run command is spawned and the outcome is
\* FAILED with stdout empty, execution_time_ms 0, exit_code 1, timeout false.
C29_CompileFailure ==
  \A w \in Workers :
    (/\ wk[w].pc = "write"
     /\ wk[w].trace.compile \in {"marker", "exit1", "exit127", "silent"})
      => /\ wk[w].runtime \in CompiledRuntimes
         /\ wk[w].trace.run = "none"
         /\ wk[w].result.status = "FAILED"
         /\ wk[w].result.stdout = ""
         /\ wk[w].result.execution_time_ms = 0
         /\ wk[w].result.exit_code = 1
         /\ wk[w].result.timeout = FALSE

\* gcc exited with code 0 and its output held the word error: nothing was run
C29_Witness ==
  \E w \in Workers :
    /\ wk[w].pc = "write"
    /\ wk[w].runtime = "gcc"
    /\ wk[w].trace.compile = "marker"
    /\ wk[w].trace.run = "none"
    /\ wk[w].result.status = "FAILED"

\* C30: every invocation of the runner has attempted to remove its scratch
\* directory when it returns, and the outcome it returns is the one the same
\* invocation returns when the removal succeeds: a removal that fails is
\* logged and changes nothing.
C30_CleanupOnEveryPath ==
  [][\A w \in Workers :
       (wk[w].pc = "run" /\ wk'[w].pc = "write")
         => /\ wk'[w].trace.cleanup \in {"removed", "logged"}
            /\ \E env \in AllEnvs :
                 LET ran == executeCode(wk[w].runtime, env)
                 IN /\ env.rmOk
                    /\ ran.outcome = wk'[w].result
                    /\ ran.trace.compile = wk'[w].trace.compile
                    /\ ran.trace.run = wk'[w].trace.run]_vars

\* a run completed and the removal of its scratch directory failed
C30_Witness ==
  \E w \in Workers :
    /\ wk[w].pc = "write"
    /\ wk[w].trace.cleanup = "logged"
    /\ wk[w].result.status = "COMPLETED"

\* C31: for a runtime without a case in the runner, the runner spawns no
\* process and returns FAILED with exit_code 1, timeout false and stderr
\* "Unsupported language: <key>" (or the message of mkdir when the scratch
\* directory could not be made); the result write that succeeds records that
\* outcome in the row, and the worker then acks the job: it leaves the queue
\* without a retry.
C31_UnsupportedRuntime ==
  [][\A w \in Workers :
       LET e == wk[w].execution_id
       IN (wk[w].runtime # "" /\ wk[w].runtime \notin SupportedRuntimes)
            => /\ (wk[w].pc = "run" /\ wk'[w].pc = "write")
                    => /\ wk'[w].trace.compile = "none"
                       /\ wk'[w].trace.run = "none"
                       /\ wk'[w].result.status = "FAILED"
                       /\ wk'[w].result.exit_code = 1
                       /\ wk'[w].result.timeout = FALSE
                       /\ wk'[w].result.stderr \in
                            {"Unsupported language: " \o wk[w].runtime, "mkdir failed"}
               /\ (wk[w].pc = "write" /\ wk'[w].pc = "return"
                                       /\ executions[e].status # "ABSENT")
                    => /\ executions'[e].status = "FAILED"
                       /\ executions'[e].stderr = wk[w].result.stderr
                       /\ executions'[e].exit_code = 1
                       /\ executions'[e].timeout = FALSE
               /\ (wk[w].pc = "return" /\ wk'[w] # wk[w])
                    => /\ jobs'[e].state = "none"
                       /\ wk'[w].pc = "idle"]_vars

\* the first attempt of a job on a ruby session ended with the row written
C31_Witness ==
  \E w \in Workers :
    /\ wk[w].pc = "return"
    /\ wk[w].runtime = "ruby"
    /\ jobs[wk[w].execution_id].attemptsMade = 0
    /\ executions[wk[w].execution_id].status = "FAILED"
    /\ executions[wk[w].execution_id].stderr = "Unsupported language: ruby"

\* C32: every job that the queue holds (waiting, active, delayed or failed) is
\* stored under the id of an execution row that exists, and carries the
\* session of that row: the row was inserted before the job was added, and no
\* job was added after an insert that failed.
C32_JobHasRow ==
  \A e \in ExecIds :
    jobs[e].state # "none"
      => /\ jobs[e].state \in {"wait", "active", "delayed", "failed"}
         /\ executions[e].status # "ABSENT"
         /\ executions[e].session_id = jobs[e].session_id

\* a job is kept in the failed set, and its row exists
C32_Witness ==
  \E e \in ExecIds :
    /\ jobs[e].state = "failed"
    /\ executions[e].status # "ABSENT"
    /\ executions[e].session_id = jobs[e].session_id

\* C33: a job leaves the queue (is acked) only in the step in which its
\* processor returns, and then its row holds the terminal status of the
\* runner's outcome, written by the result write that succeeded; a worker
\* whose RUNNING update or result write threw does not ack: the job stays as
\* it is until the throw, which makes it delayed for a retry or, after the
\* last attempt, failed.
C33_AckAfterResultWrite ==
  [][\A w \in Workers :
       LET e == wk[w].execution_id
       IN /\ \A x \in ExecIds :
               (jobs[x].state # "none" /\ jobs'[x].state = "none")
                 => \E v \in Workers :
                      /\ wk[v].pc = "return" /\ wk[v].execution_id = x
                      /\ wk[v].result.status \in TerminalStatuses
                      /\ executions[x].status = wk[v].result.status
          /\ (wk[w].pc \in {"start", "write"} /\ wk'[w].pc = "catch")
               => jobs' = jobs
          /\ (wk[w].pc = "catch" /\ wk'[w] # wk[w] /\ kills' = kills)
               => wk'[w].pc = "throw" /\ jobs' = jobs
          /\ (wk[w].pc = "throw" /\ wk'[w] # wk[w] /\ kills' = kills)
               => /\ jobs'[e].attemptsMade = jobs[e].attemptsMade + 1
                  /\ jobs'[e].state =
                       (IF jobs'[e].attemptsMade < Attempts THEN "delayed"
                        ELSE "failed")]_vars

\* the result write of the first attempt threw: the job is about to be nacked
C33_Witness ==
  \E w \in Workers :
    /\ wk[w].pc = "throw"
    /\ wk[w].result.status \in TerminalStatuses
    /\ jobs[wk[w].execution_id].state = "active"
    /\ jobs[wk[w].execution_id].attemptsMade = 0
    /\ executions[wk[w].execution_id].status = "FAILED"

\* C34: the abuse check of a submit and its insert are not interleaved with
\* the insert of another submit for the session that fills the window: while
\* a request has passed the check and has not inserted yet, no other request
\* inserts the session's 10th row of the last 60 seconds, so the window
\* never holds more than MAX_EXECUTIONS_PER_MINUTE rows.
C34_CheckThenInsertAtomic ==
  [][\A c \in Clients, d \in Clients :
       (/\ c # d
        /\ sub[c].pc \in {"find", "create"}
        /\ sub[d].pc = "create" /\ sub'[d].pc = "add"
        /\ sub[d].session_id = sub[c].session_id)
         => Cardinality(CreatedInWindow(sub[c].session_id))
              < MAX_EXECUTIONS_PER_MINUTE - 1]_vars

\* C35: the rows that the abuse query of a submit counts are exactly the
\* session's rows whose created_at is strictly later than now minus 60 seconds.
C35_WindowIsSixtySeconds ==
  \A c \in Clients :
    sub[c].pc = "abuse"
      => RecentExecutions(executions, sub[c].session_id, clock)
           = CreatedInWindow(sub[c].session_id)

\* C36: a submit that is answered 400 or 429 because of its limits, the abuse
\* check or a session that is not found is answered before anything is
\* written: the step that rejects it starts before the insert and leaves the
\* executions table, the event lists, the queue and the id counter as they
\* are, so the rows that the abuse query counts are the same as before.
C36_RejectedSubmitChangesNothing ==
  [][\A c \in Clients :
       (/\ sub'[c] # sub[c]
        /\ sub'[c].pc = "idle"
        /\ sub'[c].via = "service"
        /\ sub'[c].resp.error \in {"Validation failed", "Rate limit exceeded",
                                    "Too many failed attempts", "Session not found"})
         => /\ sub'[c].resp.http \in {400, 429}
            /\ sub[c].pc \in {"idle", "abuse", "find"}
            /\ sub'[c].execution_id = 0
            /\ executions' = executions
            /\ events' = events
            /\ jobs' = jobs
            /\ nextId' = nextId
            /\ RecentExecutions(executions', sub'[c].session_id, clock')
                 = RecentExecutions(executions, sub'[c].session_id, clock)]_vars

\* a submit was answered 429 on a session at its rate limit: the table holds
\* the ten rows it held before and the queue is empty
C36_Witness ==
  \E c \in Clients :
    /\ sub[c].pc = "idle"
    /\ sub[c].resp.http = 429
    /\ sub[c].resp.error = "Rate limit exceeded"
    /\ nextId = MAX_EXECUTIONS_PER_MINUTE + 1
    /\ \A e \in ExecIds : jobs[e].state = "none" /\ events[e] = {}

\* C37: every attempt of a job runs the text that the session row holds when
\* that attempt loads the session, whatever the text was at the submit or at
\* an earlier attempt, and the outcome is that of the text it loaded.
C37_RunsSourceAsLoaded ==
  [][\A w \in Workers :
       /\ (wk[w].pc = "load" /\ wk'[w].pc = "run")
            => wk'[w].source =
                 sessions[jobs[wk[w].execution_id].session_id].source_code
       /\ (wk[w].pc = "run" /\ wk'[w].pc = "write")
            => wk'[w].result.status =
                 (IF wk[w].source = "while (true) {}" THEN "TIMEOUT"
                  ELSE "COMPLETED")]_vars

\* the loop scan of the submit found no loop in the text of the session, and
\* the job of that submit ran an endless loop saved later
C37_Witness ==
  \E c \in Clients, w \in Workers :
    /\ sub[c].execution_id # 0
    /\ sub[c].warned = FALSE
    /\ wk[w].execution_id = sub[c].execution_id
    /\ wk[w].pc = "return"
    /\ wk[w].source = "while (true) {}"
    /\ executions[wk[w].execution_id].status = "TIMEOUT"

\* C38: the status of a session changes only from ACTIVE to INACTIVE; a step
\* that changes its text leaves its status alone, and closing a session that
\* is INACTIVE leaves it INACTIVE.
C38_StatusOnlyCloses ==
  [][\A s \in SessionIds :
       /\ sessions'[s].status # sessions[s].status
            => sessions[s].status = "ACTIVE" /\ sessions'[s].status = "INACTIVE"
       /\ sessions'[s].source_code # sessions[s].source_code
            => sessions'[s].status = sessions[s].status
       /\ sessions[s].status = "INACTIVE"
            => SessionUpdate(sessions[s], [source_code |-> NullText,
                                           status |-> "INACTIVE"]).status
                 = "INACTIVE"]_vars

\* the session is closed, its text was saved after the worker had loaded it,
\* and the job of the session has been processed: the session is INACTIVE
C38_Witness ==
  \E s \in SessionIds, w \in Workers :
    /\ sessions[s].status = "INACTIVE"
    /\ sessions[s].source_code = "while (true) {}"
    /\ wk[w].pc = "return"
    /\ wk[w].source = "console.log(1)"

\* C39: whatever the runner met (mkdir, source write, compile, run, removal),
\* the worker holds an outcome after the call, its status is COMPLETED, FAILED
\* or TIMEOUT, and the outcome is one that the result write accepts (its
\* exit_code is an integer or null), so that the attempt is not nacked on
\* account of the runner.
C39_RunnerNeverCausesNack ==
  \A w \in Workers :
    wk[w].pc = "write"
      => /\ wk[w].result.status \in TerminalStatuses
         /\ wk[w].result.exit_code \in Nat \cup {Null}

====
